---- MODULE Spec2Model ----
(***************************************************************************)
(* CodeDiary: the sync command (src/scripts/export-llm-payloads.js, second *)
(* script of the file: "Sync PRs to Notion in one command") together with  *)
(* the cache module (notion/cache.js), the collector of                    *)
(* github/pr-fetcher.js and the append of notion/sync.js.                  *)
(*                                                                         *)
(* One process (main) runs at a time.  Every await on a remote call is a   *)
(* pair of steps: the call is issued (an entry of calls with st =          *)
(* "pending") and the program continues only after the remote has replied. *)
(* The process may be killed at any step (Crash).                          *)
(*                                                                         *)
(* Text is a sequence of one-character strings.                            *)
(***************************************************************************)
EXTENDS Integers, Sequences, FiniteSets, TLC

----------------------------------------------------------------------------
(* Bounds of the model *)

\* number of process invocations (runs of main) in a behaviour
MaxRuns == 2
\* number of items the remote search returns in one run
MaxHits == 2
\* number of items the remote search holds when the pagination is studied
MaxResults == 61
\* length of the PR body enrichPR reads
MaxBody == 4
\* number of review comments of the PR prToLLMPackage is given
MaxComments == 4
\* length of the summary markdownToNotionBlocks is given
MaxMarkdown == 5
\* length of the text of one block of the summary appendSummaryToPage is given
MaxText == 4001

----------------------------------------------------------------------------
(* Text helpers *)

Digit(d) == CASE d = 0 -> "0" [] d = 1 -> "1" [] d = 2 -> "2" [] d = 3 -> "3"
              [] d = 4 -> "4" [] d = 5 -> "5" [] d = 6 -> "6" [] d = 7 -> "7"
              [] d = 8 -> "8" [] d = 9 -> "9"

RECURSIVE NumberToString(_)
\* template-literal conversion of a non-negative integer: its decimal digits
NumberToString(n) ==
    IF n < 10 THEN << Digit(n) >>
    ELSE NumberToString(n \div 10) \o << Digit(n % 10) >>

\* bug variant of ReplaceSlashes: replace('/', '_') takes the first '/' only
ReplaceFirstSlash(s) ==
    [p \in 1..Len(s) |->
        IF s[p] = "/" /\ (\A q \in 1..p - 1 : s[q] # "/") THEN "_" ELSE s[p]]

\* String.prototype.replace(/\//g, '_')
ReplaceSlashes(s) == [p \in 1..Len(s) |-> IF s[p] = "/" THEN "_" ELSE s[p]]

\* String.prototype.slice(0, n), 0 <= n
SliceTo(s, n) == SubSeq(s, 1, IF n < Len(s) THEN n ELSE Len(s))

\* Array.prototype.slice(0, n): a negative n counts from the end
ArraySlice(a, n) ==
    IF n >= 0 THEN SubSeq(a, 1, IF n < Len(a) THEN n ELSE Len(a))
    ELSE SubSeq(a, 1, IF Len(a) + n > 0 THEN Len(a) + n ELSE 0)

Min(a, b) == IF a < b THEN a ELSE b

----------------------------------------------------------------------------
(* Pull requests of the remote host *)

\* null and the empty string are both falsy: both are the empty text here
Null == << >>

unknown == << "u", "n", "k", "n", "o", "w", "n" >>

MergedAt1 == << "2","0","2","4","-","0","3","-","0","5","T","1","0",":","0","0",":","0","0","Z" >>
MergedAt2 == << "2","0","2","5","-","1","1","-","0","6","T","0","9",":","3","0",":","0","0","Z" >>

\* full pull-request records (pulls.get): base.repo.full_name, number, merged_at
FullPR(repo, number, merged) ==
    [full_name |-> repo, number |-> number, merged_at |-> merged]

PRa == FullPR(<< "a", "c", "/", "w" >>, 42, MergedAt1)
PRb == FullPR(<< "o", "/", "r" >>, 7, MergedAt2)
\* a search hit whose full record has no merge timestamp
PRu == FullPR(<< "o", "/", "r" >>, 8, Null)

MergedPRs == { PRa, PRb }
Hits == MergedPRs \cup { PRu }

\* the element pushed on prs: { ...full.data, repoFullName: full.data.base.repo.full_name }
Collected(full) ==
    [repoFullName |-> full.full_name, full_name |-> full.full_name,
     number |-> full.number, merged_at |-> full.merged_at]

prToStem(pr) ==
    LET repoName == IF pr.repoFullName # Null THEN pr.repoFullName
                    ELSE IF pr.full_name # Null THEN pr.full_name
                    ELSE unknown
        safeRepo == ReplaceSlashes(repoName)
        merged == IF pr.merged_at # Null THEN SliceTo(pr.merged_at, 10) ELSE unknown
    IN  safeRepo \o << "_", "P", "R" >> \o NumberToString(pr.number) \o << "_" >> \o merged

StemKeys == { prToStem(Collected(h)) : h \in MergedPRs }

\* sequences without repetition over S, of length at most n
InjSeqs(S, n) ==
    UNION { { s \in [1..m -> S] : \A p, q \in 1..m : p # q => s[p] # s[q] } : m \in 0..n }

----------------------------------------------------------------------------
(* The cache file and the in-memory cache image *)

\* the object {} : no key
EmptyCache == [s \in {} |-> "true"]

\* values a cache file holds: true (runSync) or a page id (syncSummariesToNotion)
CacheVals == { "true", "page-id" }

\* every parseable content of the cache file over the stems of the model
CacheObjects == UNION { [K -> CacheVals] : K \in SUBSET StemKeys }

\* a file that is missing, empty or cut short: JSON.parse throws on it
Unreadable == [ok |-> FALSE, data |-> EmptyCache]

\* loadCache: readFile + JSON.parse, {} when either throws
loadCache(file) == IF file.ok THEN file.data ELSE EmptyCache

\* bug variant of saveCache: an empty object is written
saveCacheEmpty(c) == [ok |-> TRUE, data |-> EmptyCache]

\* saveCache: the file holds JSON.stringify(cache, null, 2) once writeFile is done
saveCache(c) == [ok |-> TRUE, data |-> c]

\* bug variants of InitialCache: the file is read also under --force; the file is never read
InitialCacheIgnoresForce(f, file) == loadCache(file)
InitialCacheNeverLoads(f, file) == EmptyCache

\* const cache = force ? {} : await loadCache(CACHE_PATH)
InitialCache(f, file) == IF f THEN EmptyCache ELSE loadCache(file)

\* bug variant of IsCached: the test on force inverted
IsCachedOnlyWhenForced(c, stem, f) == stem \in DOMAIN c /\ f

\* if (cache[stem] && !force): every value of CacheVals is truthy
IsCached(c, stem, f) == stem \in DOMAIN c /\ ~f

\* bug variant of SetTrue: the image is replaced by the one new entry
SetTrueOnly(c, stem) == [s \in {stem} |-> "true"]

\* cache[stem] = true
SetTrue(c, stem) == [s \in DOMAIN c \cup {stem} |-> IF s = stem THEN "true" ELSE c[s]]

\* bug variants of cacheAfterAppend: the stem is never recorded; the stem is
\* recorded whatever the append did (cache[stem] = true outside the try)
cacheAfterAppendNever(c, stem, st) == c
cacheAfterAppendAlways(c, stem, st) == SetTrue(c, stem)

\* the cache after the try block of one PR: cache[stem] = true is reached
\* only when the awaited appendSummaryToPage call has returned
cacheAfterAppend(c, stem, st) == IF st = "err" THEN c ELSE SetTrue(c, stem)

----------------------------------------------------------------------------
(* State *)

VARIABLES
    cacheFile,    \* notion-sync-cache.json on disk
    run,          \* number of runs of main started so far
    pc,           \* where the process is; "idle" before the first run
    exitCode,     \* "none" while running, "0", "1", or "killed"
    abortCause,   \* what made the run exit with 1
    token,        \* the GitHub token of the run: "none", "valid", "invalid"
    force,        \* process.argv.includes('--force')
    cache,        \* runSync's in-memory cache image
    page,         \* fetchMergedPRsForUser: page
    items,        \* fetchMergedPRsForUser: data.items of the current page
    k,            \* fetchMergedPRsForUser: position in data.items
    prs,          \* the collected pull requests, sliced to the limit
    collected,    \* the run is past collection and the limit
    i,            \* runSync: loop index (from 1)
    calls,        \* remote calls issued for PRs in this run, in order
    outcome,      \* per handled PR: "cached", "appended", "failed"
    notionPage,   \* indices of the PRs the note store appended in this run, in order
    writes,       \* completed writes of the cache file in this run
    appendCount,  \* successful note-store appends per stem, over all runs
    fileAtStart,  \* the cache file as the run found it
    prev,         \* the previous run, as it ended
    clean,        \* no run so far was forced and no earlier run was killed
    remote,       \* the search results the host holds for the query, while
                  \* the collector runs
    pagesAsked,   \* the search requests sent in this run, in order
    arg,          \* the argument of the function call under way (enrichPR, ...)
    result,       \* what that call has returned
    settled       \* the remote replies that call has received, in order of arrival

vars == << cacheFile, run, pc, exitCode, abortCause, token, force, cache, page,
           items, k, prs, collected, i, calls, outcome, notionPage, writes,
           appendCount, fileAtStart, prev, clean, remote, pagesAsked,
           arg, result, settled >>

\* the variables of a single function call
callVars == << arg, result, settled >>

perPage == 30

NoPrev == [exit |-> "none", force |-> FALSE, prs |-> << >>,
           appended |-> {}, failed |-> {}]

\* stems of the PRs of this run with a given outcome
StemsWith(o) == { prToStem(prs[j]) : j \in { n \in 1..Len(outcome) : outcome[n] = o } }

Init ==
    /\ cacheFile \in { Unreadable } \cup { saveCache(c) : c \in CacheObjects }
    /\ run = 0
    /\ pc = "idle"
    /\ exitCode = "none"
    /\ abortCause = "none"
    /\ token = "none"
    /\ force = FALSE
    /\ cache = EmptyCache
    /\ page = 1
    /\ items = << >>
    /\ k = 0
    /\ prs = << >>
    /\ collected = FALSE
    /\ i = 1
    /\ calls = << >>
    /\ outcome = << >>
    /\ notionPage = << >>
    /\ writes = 0
    /\ appendCount = [s \in StemKeys |-> 0]
    /\ fileAtStart = cacheFile
    /\ prev = NoPrev
    /\ clean = TRUE
    /\ remote = << >>
    /\ pagesAsked = << >>
    /\ arg = << >>
    /\ result = << >>
    /\ settled = << >>

\* bug variant of Exit: the failure is swallowed and the run goes on to save
ExitToSave(code, cause) ==
    /\ pc' = "save"
    /\ exitCode' = exitCode
    /\ abortCause' = cause

\* process.exit(1) / the process ends
Exit(code, cause) ==
    /\ pc' = "exit"
    /\ exitCode' = code
    /\ abortCause' = cause

----------------------------------------------------------------------------
(* main: configuration and token  (sync script, main) *)

\* how a run starts: the Notion env is missing; getToken finds a token (valid
\* or not); getToken finds none
StartKinds == { "no-notion-env", "token-valid", "token-invalid", "no-token" }

Main ==
    /\ pc \in { "idle", "exit" }
    /\ run < MaxRuns
    /\ \E kind \in StartKinds, f \in BOOLEAN :
        /\ run' = run + 1
        /\ force' = f
        /\ fileAtStart' = cacheFile
        /\ prev' = IF run = 0 THEN NoPrev
                   ELSE [exit |-> exitCode, force |-> force, prs |-> prs,
                         appended |-> StemsWith("appended"),
                         failed |-> StemsWith("failed")]
        /\ clean' = (clean /\ ~f /\ exitCode # "killed")
        /\ cache' = EmptyCache
        /\ page' = 1
        /\ items' = << >>
        /\ k' = 0
        /\ prs' = << >>
        /\ collected' = FALSE
        /\ i' = 1
        /\ calls' = << >>
        /\ outcome' = << >>
        /\ notionPage' = << >>
        /\ writes' = 0
        /\ remote' = << >>
        /\ pagesAsked' = << >>
        /\ IF kind = "no-notion-env"
             THEN Exit("1", "config") /\ token' = "none"
           ELSE /\ pc' = IF kind = "no-token" THEN "login" ELSE "runSync"
                /\ exitCode' = "none"
                /\ abortCause' = "none"
                /\ token' = CASE kind = "no-token" -> "none"
                               [] kind = "token-invalid" -> "invalid"
                               [] OTHER -> "valid"
    /\ UNCHANGED << cacheFile, appendCount >>
    /\ UNCHANGED callVars

\* if (!token) token = await runDeviceFlowLogin(): the login throws, or the
\* user authorizes the device and the host hands out a token
DeviceFlowLogin ==
    /\ pc = "login"
    /\ \/ Exit("1", "login") /\ UNCHANGED token
       \/ /\ token' = "valid"
          /\ pc' = "runSync"
          /\ UNCHANGED << exitCode, abortCause >>
    /\ UNCHANGED << cacheFile, run, force, cache, page, items, k, prs, collected,
                    i, calls, outcome, notionPage, writes, appendCount,
                    fileAtStart, prev, clean, remote, pagesAsked >>
    /\ UNCHANGED callVars

----------------------------------------------------------------------------
(* runSync up to the collection *)

RunSyncStart ==
    /\ pc = "runSync"
    /\ cache' = InitialCache(force, cacheFile)
    /\ pc' = "auth"
    /\ UNCHANGED << cacheFile, run, exitCode, abortCause, token, force, page, items,
                    k, prs, collected, i, calls, outcome, notionPage, writes,
                    appendCount, fileAtStart, prev, clean, remote, pagesAsked >>
    /\ UNCHANGED callVars

(* fetchMergedPRsForUser *)

\* octokit.rest.users.getAuthenticated(): rejected for an invalid token, and
\* it may fail like any remote call
\* what the search of a run may find: each pull request at most once
SearchAnswers == InjSeqs(Hits, MaxHits)

\* bug variant of Accepted: the host accepts every token
AcceptedAlways(tok) == TRUE

\* the tokens the host accepts
Accepted(tok) == tok = "valid"

\* the host's answer to search.issuesAndPullRequests({ per_page, page })
PageOf(list, n, p) == SubSeq(list, (p - 1) * n + 1, Min(p * n, Len(list)))

Authenticate ==
    /\ pc = "auth"
    /\ \E ok \in BOOLEAN :
        IF Accepted(token) /\ ok
          THEN /\ pc' = "search"
               /\ page' = 1
               /\ remote' \in SearchAnswers
               /\ UNCHANGED << exitCode, abortCause >>
          ELSE Exit("1", "auth") /\ UNCHANGED << page, remote >>
    /\ UNCHANGED << cacheFile, run, token, force, cache, items, k, prs, collected,
                    i, calls, outcome, notionPage, writes, appendCount,
                    fileAtStart, prev, clean, pagesAsked >>
    /\ UNCHANGED callVars

\* octokit.rest.search.issuesAndPullRequests for the current page
SearchPage ==
    /\ pc = "search"
    /\ pagesAsked' = Append(pagesAsked, [page |-> page, per_page |-> perPage])
    /\ \/ /\ Exit("1", "search")
          /\ UNCHANGED << items, k >>
       \/ LET data == PageOf(remote, perPage, page) IN
            /\ items' = data
            /\ IF Len(data) = 0
                 THEN pc' = "limit" /\ k' = 0
                 ELSE pc' = "resolve" /\ k' = 1
            /\ UNCHANGED << exitCode, abortCause >>
    /\ UNCHANGED << cacheFile, run, token, force, cache, page, prs, collected, i,
                    calls, outcome, notionPage, writes, appendCount, fileAtStart,
                    prev, clean, remote >>
    /\ UNCHANGED callVars

\* bug variant of IsMerged: every hit is kept
IsMergedAlways(full) == TRUE

\* if (full.data.merged_at)
IsMerged(full) == full.merged_at # Null

\* bug variant of ShortPage: only an empty page ends the search
ShortPageNever(data) == FALSE

\* if (data.items.length < perPage) break
ShortPage(data) == Len(data) < perPage

\* octokit.rest.pulls.get for data.items[k], and the end of the while body
ResolveItem ==
    /\ pc = "resolve"
    /\ \/ /\ Exit("1", "resolve")
          /\ UNCHANGED << items, k, prs, page >>
       \/ LET full == items[k] IN
            /\ prs' = IF IsMerged(full) THEN Append(prs, Collected(full)) ELSE prs
            /\ IF k < Len(items)
                 THEN k' = k + 1 /\ UNCHANGED << pc, items, page >>
               ELSE IF ShortPage(items)
                 THEN pc' = "limit" /\ k' = 0 /\ items' = << >> /\ UNCHANGED page
               ELSE pc' = "search" /\ page' = page + 1 /\ k' = 0 /\ items' = << >>
            /\ UNCHANGED << exitCode, abortCause >>
    /\ UNCHANGED << cacheFile, run, token, force, cache, collected, i, calls,
                    outcome, notionPage, writes, appendCount, fileAtStart, prev, clean, remote, pagesAsked >>
    /\ UNCHANGED callVars

----------------------------------------------------------------------------
(* the limit *)

\* an optional number as the code sees it: absent (t = "none"), or the result
\* of parseInt, which is NaN (t = "NaN") or an integer v
Absent == [t |-> "none", v |-> 0]
NaN == [t |-> "NaN", v |-> 0]
Int_(n) == [t |-> "int", v |-> n]
LimitArgs == { Absent, NaN } \cup { Int_(n) : n \in -1..MaxHits }

\* askHowManyPRs: without a TTY the PR_LIMIT variable, else the answer typed
\* ("all", the empty answer and no answer are Absent)
askHowManyPRs(total, isTTY, n) ==
    IF ~isTTY
      THEN IF n.t = "none" THEN total
           ELSE Min(IF n.t = "NaN" \/ n.v = 0 THEN total ELSE n.v, total)
      ELSE IF n.t = "none" THEN total
           ELSE IF n.t = "int" /\ n.v > 0 THEN Min(n.v, total) ELSE total

\* bug variant of Limit: --limit is not looked at
LimitAsksAlways(limitArg, total, isTTY, n) == askHowManyPRs(total, isTTY, n)

\* const limit = limitArg != null && Number.isFinite(limitArg) && limitArg > 0 ? ... : ...
Limit(limitArg, total, isTTY, n) ==
    IF limitArg.t = "int" /\ limitArg.v > 0
      THEN Min(limitArg.v, total)
      ELSE askHowManyPRs(total, isTTY, n)

\* the limit and the slice, for a run started with --limit limitArg, with or
\* without a TTY, and with PR_LIMIT or the answer to the prompt n
ChooseLimitWith(limitArg, isTTY, n) ==
    /\ pc = "limit"
    /\ prs' = ArraySlice(prs, Limit(limitArg, Len(prs), isTTY, n))
    /\ i' = 1
    /\ collected' = TRUE
    /\ remote' = << >>
    /\ pc' = "loop"
    /\ UNCHANGED << cacheFile, run, exitCode, abortCause, token, force, cache, page,
                    items, k, calls, outcome, notionPage, writes, appendCount,
                    fileAtStart, prev, clean, pagesAsked >>
    /\ UNCHANGED callVars

ChooseLimit ==
    \E limitArg \in LimitArgs, isTTY \in BOOLEAN, n \in LimitArgs :
        ChooseLimitWith(limitArg, isTTY, n)

----------------------------------------------------------------------------
(* the loop over prs: enrichPR, prToLLMPackage, summarizePR, appendSummaryToPage *)

\* the remote calls runSync awaits for one PR, in order
Call(op, idx) == [op |-> op, idx |-> idx, stem |-> prToStem(prs[idx]), st |-> "pending"]

\* how a call can end.  enrichPR catches every failure of its fetches and
\* resolves; summarizePR and appendSummaryToPage reject when the remote does
Results(op) == IF op = "enrichPR" THEN { "ok" } ELSE { "ok", "err" }

\* bug variant of Await: the call is not awaited
AwaitNothing(c) == TRUE

\* await: the continuation runs once the awaited call has settled
Await(c) == c.st # "pending"

LastCall == calls[Len(calls)]

\* bug variant of Threw: no rejection is seen, the try block goes on
ThrewNever(c) == FALSE

\* the awaited call rejected: await throws and the catch block runs
Threw(c) == c.st = "err"

\* bug variant of Catch: the failure ends the loop
CatchBreaks ==
    /\ outcome' = Append(outcome, "failed")
    /\ i' = i
    /\ pc' = "save"

\* the catch block: log the failure, go on with the next PR
Catch ==
    /\ outcome' = Append(outcome, "failed")
    /\ i' = i + 1
    /\ pc' = "loop"

LoopTop ==
    /\ pc = "loop"
    /\ IF i > Len(prs)
         THEN pc' = "save" /\ UNCHANGED << i, calls, outcome >>
       ELSE IF IsCached(cache, prToStem(prs[i]), force)
         THEN /\ outcome' = Append(outcome, "cached")
              /\ i' = i + 1
              /\ UNCHANGED << pc, calls >>
       ELSE /\ calls' = Append(calls, Call("enrichPR", i))
            /\ pc' = "enrich"
            /\ UNCHANGED << i, outcome >>
    /\ UNCHANGED << cacheFile, run, exitCode, abortCause, token, force, cache, page,
                    items, k, prs, collected, notionPage, writes, appendCount,
                    fileAtStart, prev, clean, remote, pagesAsked >>
    /\ UNCHANGED callVars

\* the remote settles a pending call; a successful append is on the page
RemoteReply ==
    \E n \in DOMAIN calls :
        /\ calls[n].st = "pending"
        /\ \E r \in Results(calls[n].op) :
            /\ calls' = [calls EXCEPT ![n].st = r]
            /\ IF calls[n].op = "appendSummaryToPage" /\ r = "ok"
                 THEN /\ notionPage' = Append(notionPage, calls[n].idx)
                      /\ appendCount' = [appendCount EXCEPT ![calls[n].stem] = @ + 1]
                 ELSE UNCHANGED << notionPage, appendCount >>
        /\ UNCHANGED << cacheFile, run, pc, exitCode, abortCause, token, force, cache,
                        page, items, k, prs, collected, i, outcome, writes,
                        fileAtStart, prev, clean, remote, pagesAsked >>
        /\ UNCHANGED callVars

\* enrichPR returned: prToLLMPackage, then summarizePR is called
AfterEnrich ==
    /\ pc = "enrich"
    /\ Await(LastCall)
    /\ IF Threw(LastCall)
         THEN Catch /\ UNCHANGED calls
         ELSE /\ calls' = Append(calls, Call("summarizePR", i))
              /\ pc' = "summarize"
              /\ UNCHANGED << i, outcome >>
    /\ UNCHANGED << cacheFile, run, exitCode, abortCause, token, force, cache, page,
                    items, k, prs, collected, notionPage, writes, appendCount,
                    fileAtStart, prev, clean, remote, pagesAsked >>
    /\ UNCHANGED callVars

\* summarizePR returned or threw: appendSummaryToPage is called, or the catch runs
AfterSummarize ==
    /\ pc = "summarize"
    /\ Await(LastCall)
    /\ IF Threw(LastCall)
         THEN Catch /\ UNCHANGED calls
         ELSE /\ calls' = Append(calls, Call("appendSummaryToPage", i))
              /\ pc' = "append"
              /\ UNCHANGED << i, outcome >>
    /\ UNCHANGED << cacheFile, run, exitCode, abortCause, token, force, cache, page,
                    items, k, prs, collected, notionPage, writes, appendCount,
                    fileAtStart, prev, clean, remote, pagesAsked >>
    /\ UNCHANGED callVars

\* appendSummaryToPage returned or threw: cache[stem] = true, or the catch runs
AfterAppend ==
    /\ pc = "append"
    /\ Await(LastCall)
    /\ cache' = cacheAfterAppend(cache, prToStem(prs[i]), LastCall.st)
    /\ IF Threw(LastCall)
         THEN Catch
         ELSE /\ outcome' = Append(outcome, "appended")
              /\ i' = i + 1
              /\ pc' = "loop"
    /\ UNCHANGED << cacheFile, run, exitCode, abortCause, token, force, page, items,
                    k, prs, collected, calls, notionPage, writes, appendCount,
                    fileAtStart, prev, clean, remote, pagesAsked >>
    /\ UNCHANGED callVars

----------------------------------------------------------------------------
(* saveCache, the end of the run, and the end of the process *)

\* fs.writeFile opens the file for writing, which empties it ...
SaveBegin ==
    /\ pc = "save"
    /\ cacheFile' = Unreadable
    /\ pc' = "saving"
    /\ UNCHANGED << run, exitCode, abortCause, token, force, cache, page, items, k,
                    prs, collected, i, calls, outcome, notionPage, writes,
                    appendCount, fileAtStart, prev, clean, remote, pagesAsked >>
    /\ UNCHANGED callVars

\* ... and then writes the text; runSync returns and the process ends
SaveEnd ==
    /\ pc = "saving"
    /\ cacheFile' = saveCache(cache)
    /\ writes' = writes + 1
    /\ pc' = "exit"
    /\ exitCode' = "0"
    /\ UNCHANGED << run, abortCause, token, force, cache, page, items, k, prs,
                    collected, i, calls, outcome, notionPage, appendCount,
                    fileAtStart, prev, clean, remote, pagesAsked >>
    /\ UNCHANGED callVars

\* the process is killed (signal, power loss) while it handles the PRs or
\* saves the cache; a kill before that leaves the file and the page as an
\* abort of the collection does
Crash ==
    /\ pc \in { "loop", "enrich", "summarize", "append", "save", "saving" }
    /\ pc' = "exit"
    /\ exitCode' = "killed"
    /\ UNCHANGED << cacheFile, run, abortCause, token, force, cache, page, items, k,
                    prs, collected, i, calls, outcome, notionPage, writes,
                    appendCount, fileAtStart, prev, clean, remote, pagesAsked >>
    /\ UNCHANGED callVars

Next ==
    \/ Main
    \/ DeviceFlowLogin
    \/ RunSyncStart
    \/ Authenticate
    \/ SearchPage
    \/ ResolveItem
    \/ ChooseLimit
    \/ LoopTop
    \/ RemoteReply
    \/ AfterEnrich
    \/ AfterSummarize
    \/ AfterAppend
    \/ SaveBegin
    \/ SaveEnd
    \/ Crash

Spec == Init /\ [][Next]_vars

----------------------------------------------------------------------------
(* Properties *)

\* the calls of this run issued for the PR at position j of prs
CallsFor(j) == { n \in DOMAIN calls : calls[n].idx = j }

RunEnded == pc = "exit" /\ exitCode = "0"

\* C1: in a run without --force, no enrichPR, summarizePR or
\* appendSummaryToPage call is issued for a selected PR whose stem is a key
\* (with a truthy value) of the cache loaded from the file at run start.
C1_CachedHitNoCalls ==
    ~force =>
        \A j \in 1..Len(prs) :
            prToStem(prs[j]) \in DOMAIN loadCache(fileAtStart) => CallsFor(j) = {}

\* a finished run without --force that skipped a cached PR and worked on another
C1_Witness ==
    /\ RunEnded /\ ~force
    /\ \E j \in 1..Len(prs) :
          /\ prToStem(prs[j]) \in DOMAIN loadCache(fileAtStart)
          /\ outcome[j] = "cached"
    /\ calls # << >>

\* C2: over runs that are all without --force and of which none was killed,
\* whatever fails for single PRs and whatever the limits, the note store
\* appends a given stem successfully at most once.
C2_AtMostOnceAcrossRuns ==
    clean => \A s \in StemKeys : appendCount[s] <= 1

\* the second of two such runs has skipped a PR that the first run appended
C2_Witness ==
    /\ clean /\ run = 2 /\ RunEnded
    /\ prev.exit = "0"
    /\ \E s \in prev.appended : s \in StemsWith("cached") /\ appendCount[s] = 1

\* appendSummaryToPage calls issued in this run
AppendCalls == { n \in DOMAIN calls : calls[n].op = "appendSummaryToPage" }

\* this run and the one before it ran to the end, both without --force, on
\* the same collected and selected pull requests
SecondOfTwoEqualRuns ==
    /\ run >= 2 /\ RunEnded /\ ~force
    /\ prev.exit = "0" /\ ~prev.force
    /\ prs = prev.prs

C4_NoReplayAfterKill ==
    (prev.exit = "killed" /\ ~force) =>
        \A n \in AppendCalls : calls[n].st = "ok" => calls[n].stem \notin prev.appended

\* C5: a PR for which a call of the try block threw has no entry in the cache
\* image, nor in the file the run writes; and the next run without --force
\* does not report that PR as cached when it selects it.  (The failing run
\* ended by itself or was without --force: a forced run that is killed before
\* it saves leaves the file of the runs before it.)
C5_FailureLeavesNoEntry ==
    /\ \A s \in StemsWith("failed") :
          /\ s \notin DOMAIN cache
          /\ RunEnded => s \notin DOMAIN loadCache(cacheFile)
    /\ (~force /\ prev.exit \in { "0", "killed" } /\ (prev.exit = "0" \/ ~prev.force)) =>
          StemsWith("cached") \cap prev.failed = {}

\* a PR that failed in the first run is appended in the second
C5_Witness ==
    /\ ~force /\ prev.exit = "0" /\ RunEnded
    /\ StemsWith("appended") \cap prev.failed # {}

\* C6: a throw in the try block never ends the loop: once the run is past
\* the loop (saving, or ended by itself) every selected PR is cached,
\* appended or failed, and the run has not exited with an error.
C6_EveryPRHandled ==
    (collected /\ (pc \in { "save", "saving" } \/ (pc = "exit" /\ exitCode # "killed"))) =>
        /\ exitCode \in { "none", "0" }
        /\ Len(outcome) = Len(prs)
        /\ \A j \in 1..Len(outcome) : outcome[j] \in { "cached", "appended", "failed" }

\* the first of two PRs failed and the second was still appended
C6_Witness ==
    /\ RunEnded /\ Len(prs) = 2
    /\ outcome = << "failed", "appended" >>

\* C7 as stated, for the case it names: a failure of the remote call that
\* resolves one search hit to its full record does not abort the run.
C7_HitFailureNeverAborts ==
    ~(pc = "exit" /\ exitCode = "1" /\ abortCause = "resolve")

\* the cache file is written only by the save that ends the run
WrittenOnceAtEnd ==
    /\ writes <= 1
    /\ pc \in { "loop", "enrich", "summarize", "append", "save" } =>
          writes = 0 /\ cacheFile = fileAtStart
    /\ pc = "saving" => writes = 0 /\ Len(outcome) = Len(prs)
    /\ writes = 1 =>
          /\ RunEnded
          /\ Len(outcome) = Len(prs)
          /\ cacheFile.ok /\ cacheFile.data = cache

\* C8: a run that is past collection writes the cache file, unless it is
\* killed; it writes once, after the last selected PR is handled, whether or
\* not PRs failed, and the file then holds the in-memory cache image.
C8_SavedOnceAtEnd ==
    /\ []WrittenOnceAtEnd
    /\ (collected /\ exitCode = "none") ~> (writes = 1 \/ exitCode = "killed")

\* a run in which a PR failed has written its cache image
C8_Witness ==
    /\ writes = 1 /\ "failed" \in { outcome[j] : j \in 1..Len(outcome) }
    /\ StemsWith("appended") # {}

\* C9 as stated: at the end of a run with --force every selected PR has been
\* appended, and the file holds exactly the stems appended in the run.
C9_Original ==
    (RunEnded /\ force) =>
        /\ \A j \in 1..Len(prs) : outcome[j] = "appended"
        /\ DOMAIN loadCache(cacheFile) = StemsWith("appended")

\* C9 amended: in a run with --force no selected PR is treated as cached:
\* each is enriched and summarized again, and appended again unless its
\* summarizePR or appendSummaryToPage call throws; the file written at the
\* end holds exactly the stems appended in this run.
C9_ForceReprocessesAll ==
    (RunEnded /\ force) =>
        /\ \A j \in 1..Len(prs) :
              /\ outcome[j] # "cached"
              /\ \E n \in CallsFor(j) : calls[n].op = "enrichPR"
              /\ \E n \in CallsFor(j) : calls[n].op = "summarizePR"
              /\ outcome[j] = "appended" <=>
                    \A n \in CallsFor(j) : calls[n].st = "ok"
              /\ outcome[j] = "appended" =>
                    \E n \in CallsFor(j) : calls[n].op = "appendSummaryToPage"
        /\ cacheFile.ok
        /\ cacheFile.data = [s \in StemsWith("appended") |-> "true"]

\* a forced run re-appended a PR the prior file listed and dropped another entry
C9_Witness ==
    /\ RunEnded /\ force
    /\ DOMAIN loadCache(fileAtStart) \cap StemsWith("appended") # {}
    /\ DOMAIN loadCache(fileAtStart) \ DOMAIN loadCache(cacheFile) # {}

\* C10: at most one call is outstanding; an outstanding call is for the PR
\* the loop is at, with every earlier PR finished; calls are issued in
\* collection order; the page receives the appends in collection order.
C10_OneAtATime ==
    /\ Cardinality({ n \in DOMAIN calls : calls[n].st = "pending" }) <= 1
    /\ \A n \in DOMAIN calls :
          /\ calls[n].idx <= i
          /\ calls[n].idx < i => calls[n].st # "pending"
          /\ calls[n].idx = i => Len(outcome) = i - 1
          /\ \A m \in DOMAIN calls : m < n => calls[m].idx <= calls[n].idx
    /\ \A p, q \in DOMAIN notionPage : p < q => notionPage[p] < notionPage[q]

\* two PRs were appended in one run
C10_Witness == RunEnded /\ Len(notionPage) = 2

----------------------------------------------------------------------------
(* The event loop runs every continuation that is ready, the remote answers *)
(* every call and the limit prompt is answered; a kill is never owed.       *)

Progress ==
    \/ RunSyncStart
    \/ Authenticate
    \/ SearchPage
    \/ ResolveItem
    \/ ChooseLimit
    \/ LoopTop
    \/ RemoteReply
    \/ AfterEnrich
    \/ AfterSummarize
    \/ AfterAppend
    \/ SaveBegin
    \/ SaveEnd

FairSpec == Spec /\ WF_vars(Progress)

----------------------------------------------------------------------------
(* fetchMergedPRsForUser alone, against result lists of several pages *)

\* in a result list, every m-th hit is one whose full record has no merge
\* timestamp; with m = MaxResults + 1 every hit is merged, with m = 1 none
Periods == { 1, 2, 3, MaxResults + 1 }

Hit(n, m) == FullPR(<< "o", "/", "r" >>, n, IF n % m = 0 THEN Null ELSE MergedAt1)

ResultList(n, m) == [j \in 1..n |-> Hit(j, m)]

\* the call fetchMergedPRsForUser(octokit), once getAuthenticated has returned
PageInit ==
    /\ remote \in { ResultList(n, m) : n \in 0..MaxResults, m \in Periods }
    /\ pc = "search"
    /\ token = "valid"
    /\ run = 1
    /\ page = 1
    /\ items = << >>
    /\ k = 0
    /\ prs = << >>
    /\ pagesAsked = << >>
    /\ cacheFile = Unreadable
    /\ exitCode = "none"
    /\ abortCause = "none"
    /\ force = FALSE
    /\ cache = EmptyCache
    /\ collected = FALSE
    /\ i = 1
    /\ calls = << >>
    /\ outcome = << >>
    /\ notionPage = << >>
    /\ writes = 0
    /\ appendCount = [s \in StemKeys |-> 0]
    /\ fileAtStart = cacheFile
    /\ prev = NoPrev
    /\ clean = TRUE
    /\ arg = << >>
    /\ result = << >>
    /\ settled = << >>

PageNext ==
    \/ SearchPage
    \/ ResolveItem

PageSpec == PageInit /\ [][PageNext]_vars

\* the host answers every request, and the loop goes on after each answer
PageFairSpec == PageSpec /\ WF_vars(PageNext)

\* C14: when fetchMergedPRsForUser returns, its result holds exactly the
\* search hits whose full record has a merge timestamp, each once, in the
\* order of the pagination; the hits without one are left out.
C14_ExactlyTheMergedHits ==
    pc = "limit" =>
        LET merged == SelectSeq(remote, LAMBDA h : h.merged_at # Null) IN
        /\ prs = [n \in 1..Len(merged) |-> Collected(merged[n])]
        /\ \A a, b \in 1..Len(prs) : a # b => prs[a].number # prs[b].number

\* a list of more than one page was collected; some hits were kept, some left out
C14_Witness ==
    /\ pc = "limit" /\ Len(pagesAsked) >= 2
    /\ Len(prs) > 0 /\ Len(prs) < Len(remote)

\* the requests so far are for the pages 1, 2, 3, ... with 30 items a page,
\* each after the first follows a page of exactly 30 items, and none follows
\* a page of fewer; once the collector has returned, the last page asked was
\* empty or short
PagesInOrder ==
    /\ \A n \in 1..Len(pagesAsked) :
          /\ pagesAsked[n].page = n
          /\ pagesAsked[n].per_page = 30
          /\ n > 1 => Len(remote) >= 30 * (n - 1)
    /\ pc \in { "resolve", "limit" } => exitCode = "none" /\ Len(pagesAsked) >= 1
    /\ pc = "limit" => Len(remote) < 30 * Len(pagesAsked)
    /\ (pc = "search" /\ pagesAsked # << >>) => Len(remote) >= 30 * Len(pagesAsked)

\* C15: the collector asks for the pages 1, 2, 3, ... with 30 items a page,
\* asks for the next page after every page of exactly 30 items, returns right
\* after the first page that is empty or has fewer than 30 items, and against
\* a finite result list it comes to an end.
C15_Pagination ==
    /\ []PagesInOrder
    /\ <>(pc \in { "limit", "exit" })

\* two full pages were followed by a short third page, which ended the search
C15_Witness ==
    /\ pc = "limit" /\ Len(pagesAsked) = 3
    /\ Len(remote) % 30 # 0

----------------------------------------------------------------------------
(* A single function call: the sync run is not under way *)

syncVars == << cacheFile, run, exitCode, abortCause, token, force, cache, page,
               items, k, prs, collected, i, calls, outcome, notionPage, writes,
               appendCount, fileAtStart, prev, clean, remote, pagesAsked >>

Parked ==
    /\ cacheFile = Unreadable
    /\ run = 0
    /\ exitCode = "none"
    /\ abortCause = "none"
    /\ token = "valid"
    /\ force = FALSE
    /\ cache = EmptyCache
    /\ page = 1
    /\ items = << >>
    /\ k = 0
    /\ prs = << >>
    /\ collected = FALSE
    /\ i = 1
    /\ calls = << >>
    /\ outcome = << >>
    /\ notionPage = << >>
    /\ writes = 0
    /\ appendCount = [s \in StemKeys |-> 0]
    /\ fileAtStart = cacheFile
    /\ prev = NoPrev
    /\ clean = TRUE
    /\ remote = << >>
    /\ pagesAsked = << >>

Range(f) == { f[x] : x \in DOMAIN f }

\* sequences over S of length at most n
SeqsUpTo(S, n) == UNION { [1..m -> S] : m \in 0..n }

----------------------------------------------------------------------------
(* enrichPR: the three facet fetches at once, then the linked issues at once *)

\* JavaScript values, where null, a string and an array have to be told apart
JsNull == [t |-> "null", v |-> << >>]
Str(x) == [t |-> "string", v |-> x]
Arr(a) == [t |-> "array", v |-> a]

\* how the promise of an async function settles
Resolved(v) == [rejected |-> FALSE, value |-> v]
Rejected == [rejected |-> TRUE, value |-> JsNull]

IsDigit(c) == c \in { "0", "1", "2", "3", "4", "5", "6", "7", "8", "9" }

DigitValue(c) == CHOOSE d \in 0..9 : Digit(d) = c

RECURSIVE ParseInt(_)
\* parseInt(m[1], 10) on a run of digits
ParseInt(ds) ==
    IF ds = << >> THEN 0
    ELSE 10 * ParseInt(SubSeq(ds, 1, Len(ds) - 1)) + DigitValue(ds[Len(ds)])

RECURSIVE DigitsEnd(_, _)
\* \d+ is greedy: the last position of the run of digits that holds p
DigitsEnd(b, p) == IF p < Len(b) /\ IsDigit(b[p + 1]) THEN DigitsEnd(b, p + 1) ELSE p

RECURSIVE ExecFrom(_, _)
\* the loop of re.exec(body) with re = /#(\d+)/g, from position p on
ExecFrom(b, p) ==
    IF p >= Len(b) THEN << >>
    ELSE IF b[p] = "#" /\ IsDigit(b[p + 1])
      THEN LET e == DigitsEnd(b, p + 1) IN
           << [number |-> ParseInt(SubSeq(b, p + 1, e))] >> \o ExecFrom(b, e + 1)
    ELSE ExecFrom(b, p + 1)

extractLinkedIssues(b) == ExecFrom(b, 1)

\* the characters of a PR body, and the bodies of the model (null: no body)
BodyChars == { "#", "1", "2", "x" }
Bodies == { JsNull } \cup { Str(b) : b \in SeqsUpTo(BodyChars, MaxBody) }

\* the PRs handed to enrichPR
EnrichArgs ==
    { [repoFullName |-> PRa.full_name, number |-> PRa.number,
       merged_at |-> PRa.merged_at, body |-> b] : b \in Bodies }

\* const rawLinked = extractLinkedIssues(pr.body || '')
rawLinked == extractLinkedIssues(IF arg.body.t = "string" THEN arg.body.v ELSE << >>)

\* the remote calls of enrichPR: the members of the two Promise.all arrays
FacetCalls ==
    << [fn |-> "getPRDiff", n |-> 0], [fn |-> "getReviewComments", n |-> 0],
       [fn |-> "getPRListFiles", n |-> 0] >>
IssueCalls == [n \in 1..Len(rawLinked) |-> [fn |-> "issues.get", n |-> n]]

\* what the host answers to a call when it answers
RemoteData(id) ==
    CASE id.fn = "getPRDiff" -> Str(<< "@", "@" >>)
      [] id.fn = "getReviewComments" -> Arr(<< "comment" >>)
      [] id.fn = "getPRListFiles" -> Arr(<< "file" >>)
      [] id.fn = "issues.get" ->
           [title |-> Str(NumberToString(rawLinked[id.n].number)), body |-> JsNull]

\* bug variant of getPRListFiles: null when the fetch fails
getPRListFilesNull(r) ==
    IF r.st = "err" THEN Resolved(JsNull)
    ELSE Resolved(IF r.data.t = "null" THEN Arr(<< >>) ELSE r.data)

\* try { return data || [] } catch (e) { return [] }
getPRListFiles(r) ==
    IF r.st = "err" THEN Resolved(Arr(<< >>))
    ELSE Resolved(IF r.data.t = "null" THEN Arr(<< >>) ELSE r.data)

\* try { return typeof data === 'string' ? data : null } catch (e) { return null }
getPRDiff(r) ==
    IF r.st = "err" THEN Resolved(JsNull)
    ELSE Resolved(IF r.data.t = "string" THEN r.data ELSE JsNull)

\* try { return data || [] } catch (e) { return [] }
getReviewComments(r) ==
    IF r.st = "err" THEN Resolved(Arr(<< >>))
    ELSE Resolved(IF r.data.t = "null" THEN Arr(<< >>) ELSE r.data)

\* x ?? ''
OrEmpty(x) == IF x.t = "null" THEN Str(<< >>) ELSE x

\* bug variant of LinkedIssue: no catch around the fetch
LinkedIssueNoCatch(number, r) ==
    IF r.st = "err" THEN Rejected
    ELSE Resolved([number |-> number, title |-> OrEmpty(r.data.title),
                   body |-> OrEmpty(r.data.body)])

\* the async arrow mapped over rawLinked: title and body stay null when
\* issues.get throws
LinkedIssue(number, r) ==
    IF r.st = "err"
      THEN Resolved([number |-> number, title |-> JsNull, body |-> JsNull])
      ELSE Resolved([number |-> number, title |-> OrEmpty(r.data.title),
                     body |-> OrEmpty(r.data.body)])

\* the promise of the async function that made call id, once the host replied r
Promise(id, r) ==
    CASE id.fn = "getPRDiff" -> getPRDiff(r)
      [] id.fn = "getReviewComments" -> getReviewComments(r)
      [] id.fn = "getPRListFiles" -> getPRListFiles(r)
      [] id.fn = "issues.get" -> LinkedIssue(rawLinked[id.n].number, r)

\* the reply to call id among the replies received
SettledFor(id) == CHOOSE e \in Range(settled) : e.id = id

IsSettled(id) == \E e \in Range(settled) : e.id = id

\* bug variant of PromiseAll: the values in the order the promises settled
PromiseAllAsSettled(ids, done) ==
    LET mine == SelectSeq(done, LAMBDA e : e.id \in Range(ids)) IN
    IF \E n \in 1..Len(mine) : mine[n].promise.rejected THEN Rejected
    ELSE Resolved([n \in 1..Len(mine) |-> mine[n].promise.value])

\* Promise.all(ids.map(...)): the values in the order of the array
PromiseAll(ids, done) ==
    LET at(n) == CHOOSE e \in Range(done) : e.id = ids[n] IN
    IF \E n \in 1..Len(ids) : at(n).promise.rejected THEN Rejected
    ELSE Resolved([n \in 1..Len(ids) |-> at(n).promise.value])

EnrichInit ==
    /\ Parked
    /\ pc = "call"
    /\ arg \in EnrichArgs
    /\ result = << >>
    /\ settled = << >>

\* enrichPR is called: the three fetches are under way
EnrichCall ==
    /\ pc = "call"
    /\ pc' = "facets"
    /\ UNCHANGED << arg, result, settled >>
    /\ UNCHANGED syncVars

\* the host replies to a call and the async function that made it settles
Reply(id) ==
    /\ ~IsSettled(id)
    /\ \E st \in { "ok", "err" } :
        LET r == [st |-> st, data |-> IF st = "ok" THEN RemoteData(id) ELSE JsNull] IN
        settled' = Append(settled, [id |-> id, st |-> st, data |-> r.data,
                                    promise |-> Promise(id, r)])

FacetReply ==
    /\ pc = "facets"
    /\ \E n \in 1..Len(FacetCalls) : Reply(FacetCalls[n])
    /\ UNCHANGED << pc, arg, result >>
    /\ UNCHANGED syncVars

\* const [pullPatch, reviewComments, listFiles] = await Promise.all([...]);
\* then the issue fetches are under way
FacetsJoin ==
    /\ pc = "facets"
    /\ \A n \in 1..Len(FacetCalls) : IsSettled(FacetCalls[n])
    /\ LET all == PromiseAll(FacetCalls, settled) IN
        IF all.rejected
          THEN pc' = "thrown" /\ UNCHANGED result
          ELSE /\ result' = [diff |-> all.value[1], reviewComments |-> all.value[2],
                             listFiles |-> all.value[3]]
               /\ pc' = "issues"
    /\ UNCHANGED << arg, settled >>
    /\ UNCHANGED syncVars

IssueReply ==
    /\ pc = "issues"
    /\ \E n \in 1..Len(IssueCalls) : Reply(IssueCalls[n])
    /\ UNCHANGED << pc, arg, result >>
    /\ UNCHANGED syncVars

\* const linkedIssues = await Promise.all(rawLinked.map(...)); return { ...pr, ... }
EnrichReturn ==
    /\ pc = "issues"
    /\ \A n \in 1..Len(IssueCalls) : IsSettled(IssueCalls[n])
    /\ LET all == PromiseAll(IssueCalls, settled) IN
        IF all.rejected
          THEN pc' = "thrown" /\ UNCHANGED result
          ELSE /\ result' = [repoFullName |-> arg.repoFullName, number |-> arg.number,
                             merged_at |-> arg.merged_at, body |-> arg.body,
                             diff |-> result.diff,
                             reviewComments |-> result.reviewComments,
                             linkedIssues |-> all.value,
                             listFiles |-> result.listFiles]
               /\ pc' = "returned"
    /\ UNCHANGED << arg, settled >>
    /\ UNCHANGED syncVars

EnrichNext ==
    \/ EnrichCall
    \/ FacetReply
    \/ FacetsJoin
    \/ IssueReply
    \/ EnrichReturn

EnrichSpec == EnrichInit /\ [][EnrichNext]_vars

\* the facet of the enriched PR that a facet call fills
FacetOf(id) ==
    CASE id.fn = "getPRDiff" -> result.diff
      [] id.fn = "getReviewComments" -> result.reviewComments
      [] id.fn = "getPRListFiles" -> result.listFiles

\* C11: whichever of the three facet fetches fail and in whatever order the
\* three replies arrive, enrichPR does not throw, and every facet whose fetch
\* succeeded holds the value that was fetched for it.
C11_FacetsIndependent ==
    /\ pc # "thrown"
    /\ pc = "returned" =>
          \A n \in 1..Len(FacetCalls) :
              SettledFor(FacetCalls[n]).st = "ok" =>
                  FacetOf(FacetCalls[n]) = SettledFor(FacetCalls[n]).data

\* the files arrived first, the diff failed, the comments arrived last
C11_Witness ==
    /\ pc = "returned"
    /\ settled[1].id.fn = "getPRListFiles" /\ settled[1].st = "ok"
    /\ settled[2].id.fn = "getPRDiff" /\ settled[2].st = "err"
    /\ settled[3].id.fn = "getReviewComments" /\ settled[3].st = "ok"

\* C12 as stated: a facet whose fetch failed holds the empty text (diff) or
\* the empty list (changed files, review comments).
C12_Original ==
    pc = "returned" =>
        /\ SettledFor(FacetCalls[1]).st = "err" => result.diff = Str(<< >>)
        /\ SettledFor(FacetCalls[2]).st = "err" => result.reviewComments = Arr(<< >>)
        /\ SettledFor(FacetCalls[3]).st = "err" => result.listFiles = Arr(<< >>)

\* C12, amended: a facet whose fetch failed holds null (diff) or the empty
\* list (changed files, review comments).
C12_FailedFacetNeutral ==
    pc = "returned" =>
        /\ SettledFor(FacetCalls[1]).st = "err" => result.diff = JsNull
        /\ SettledFor(FacetCalls[2]).st = "err" => result.reviewComments = Arr(<< >>)
        /\ SettledFor(FacetCalls[3]).st = "err" => result.listFiles = Arr(<< >>)

\* all three facet fetches failed
C12_Witness ==
    /\ pc = "returned"
    /\ \A n \in 1..Len(FacetCalls) : SettledFor(FacetCalls[n]).st = "err"

\* the positions of the body where a "#" is followed by a digit
RefPositions(b) == { p \in 1..Len(b) : b[p] = "#" /\ p < Len(b) /\ IsDigit(b[p + 1]) }

\* the digits that follow the "#" at position p, up to the first non-digit
DigitsAfter(b, p) ==
    LET e == CHOOSE q \in p + 1..Len(b) :
                 /\ \A j \in p + 1..q : IsDigit(b[j])
                 /\ q < Len(b) => ~IsDigit(b[q + 1])
    IN  SubSeq(b, p + 1, e)

\* C13: the linked issues of the enriched PR are one per "#<digits>" of the
\* body, repeated numbers kept, in the order they stand in the body; an issue
\* whose fetch failed has the title null and the body null, the others have
\* what was fetched, and no failed fetch makes enrichPR throw.
C13_LinkedIssues ==
    /\ pc # "thrown"
    /\ pc = "returned" =>
          LET b == IF arg.body.t = "string" THEN arg.body.v ELSE << >>
              P == RefPositions(b)
              li == result.linkedIssues
          IN  /\ Len(li) = Cardinality(P)
              /\ \A p \in P :
                    LET n == Cardinality({ q \in P : q <= p })
                        r == SettledFor([fn |-> "issues.get", n |-> n])
                    IN  /\ li[n].number = ParseInt(DigitsAfter(b, p))
                        /\ r.st = "err" => li[n].title = JsNull /\ li[n].body = JsNull
                        /\ r.st = "ok" => /\ li[n].title = r.data.title
                                          /\ li[n].body = Str(<< >>)

\* the body names issue 1 twice; the second fetch was answered first, and
\* the first fetch failed
C13_Witness ==
    /\ pc = "returned"
    /\ arg.body = Str(<< "#", "1", "#", "1" >>)
    /\ Len(result.linkedIssues) = 2
    /\ settled[4].id.n = 2 /\ settled[4].st = "ok"
    /\ settled[5].id.n = 1 /\ settled[5].st = "err"

----------------------------------------------------------------------------
(* The start of a run *)

\* no search, no lookup of a full record and no call for a PR has been made
NothingIssued ==
    /\ pagesAsked = << >> /\ items = << >> /\ prs = << >>
    /\ calls = << >> /\ notionPage = << >>

\* C16 as stated, for the credential: a run that finds no GitHub credential,
\* or whose credential the host is about to reject, ends at its next step
\* with exit status 1.
C16_Original ==
    [][ (pc = "login" \/ (pc = "auth" /\ token = "invalid"))
            => (pc' = "exit" /\ exitCode' = "1") ]_vars

\* C16, amended: a run stopped by the missing Notion configuration, by a
\* failed device-flow login or by the authentication has exit status 1 and
\* has issued nothing; a run without a token, or with a token the host
\* rejects, can do nothing but that.
C16_FailFast ==
    /\ (pc = "exit" /\ abortCause \in { "config", "login", "auth" }) =>
          exitCode = "1" /\ NothingIssued
    /\ (run > 0 /\ token = "none") =>
          /\ pc \in { "login", "exit" } /\ NothingIssued
          /\ pc = "exit" => exitCode = "1" /\ abortCause \in { "config", "login" }
    /\ token = "invalid" =>
          /\ pc \in { "runSync", "auth", "exit" } /\ NothingIssued
          /\ pc = "exit" => exitCode = "1" /\ abortCause = "auth"

\* the second run was stopped by the authentication, after a first run that
\* had appended a PR
C16_Witness ==
    /\ pc = "exit" /\ exitCode = "1" /\ abortCause = "auth" /\ token = "invalid"
    /\ run = 2 /\ prev.appended # {}

----------------------------------------------------------------------------
(* prToLLMPackage *)

\* diff-context texts (diff_hunk) of review comments
HunkA == << "@", "a" >>
HunkB == << "@", "b" >>
HunkC == << "@", "c" >>
\* a comment's diff_hunk: a text, or nothing (undefined, null and '' are falsy)
HunkValues == { Null, HunkA, HunkB, HunkC }

\* review comments with the given diff contexts
CommentList(hs) ==
    [n \in 1..Len(hs) |->
        [path |-> << "f", ".", "j", "s" >>, body |-> << "c" >> \o NumberToString(n),
         diff_hunk |-> hs[n]]]

\* the enriched PRs handed to prToLLMPackage
PkgArgs ==
    { [title |-> << "t" >>, body |-> Null, merged_at |-> MergedAt1, number |-> 42,
       html_url |-> << "u" >>,
       listFiles |-> << [filename |-> << "f", ".", "j", "s" >>, status |-> "modified",
                         additions |-> 1, deletions |-> 0, patch |-> Null] >>,
       linkedIssues |-> << [number |-> 1, title |-> << "i" >>, body |-> Null] >>,
       reviewComments |-> CommentList(hs)] : hs \in SeqsUpTo(HunkValues, MaxComments) }

\* new Map() and {} : no key
EmptyMap == [x \in {} |-> Null]

\* hunkToId.set(key, v) and diffHunks[key] = v
Put(m, key, v) == [x \in DOMAIN m \cup { key } |-> IF x = key THEN v ELSE m[x]]

\* bug variant of HasHunk: no context is ever found in the map
HasHunkNever(m, h) == FALSE

\* hunkToId.has(h)
HasHunk(m, h) == h \in DOMAIN m

\* bug variant of HunkId: hunk_${hunkIndex++}, counting from 0
HunkIdFromZero(n) == << "h", "u", "n", "k", "_" >> \o NumberToString(n - 1)

\* `hunk_${++hunkIndex}` with n the incremented hunkIndex
HunkId(n) == << "h", "u", "n", "k", "_" >> \o NumberToString(n)

RECURSIVE HunkLoop(_, _)
\* hunkToId, diffHunks and hunkIndex after the for loop has taken the first
\* n comments
HunkLoop(cs, n) ==
    IF n = 0 THEN [hunkToId |-> EmptyMap, diffHunks |-> EmptyMap, hunkIndex |-> 0]
    ELSE LET st == HunkLoop(cs, n - 1)
             h == cs[n].diff_hunk
         IN  IF h = Null THEN st
             ELSE IF HasHunk(st.hunkToId, h) THEN st
             ELSE LET id == HunkId(st.hunkIndex + 1) IN
                  [hunkToId |-> Put(st.hunkToId, h, id),
                   diffHunks |-> Put(st.diffHunks, id, h),
                   hunkIndex |-> st.hunkIndex + 1]

\* bug variant of CommentOut: the raw context is copied along
CommentOutWithHunk(c, hunkToId) ==
    IF c.diff_hunk # Null
      THEN [path |-> c.path, body |-> c.body, hunkRef |-> hunkToId[c.diff_hunk],
            diff_hunk |-> c.diff_hunk]
      ELSE [path |-> c.path, body |-> c.body]

\* the arrow mapped over rawComments: out = { path, body }, and
\* out.hunkRef = hunkToId.get(c.diff_hunk) if (c.diff_hunk)
CommentOut(c, hunkToId) ==
    IF c.diff_hunk # Null
      THEN [path |-> c.path, body |-> c.body, hunkRef |-> hunkToId[c.diff_hunk]]
      ELSE [path |-> c.path, body |-> c.body]

\* a missing value is Null here, so title ?? null, f.patch || null and
\* pr.body || '' leave the value as it is
prToLLMPackage(pr) ==
    LET listFiles == pr.listFiles
        linkedIssues == [n \in 1..Len(pr.linkedIssues) |->
                            [number |-> pr.linkedIssues[n].number,
                             title |-> pr.linkedIssues[n].title,
                             body |-> pr.linkedIssues[n].body]]
        filesAndPatches == [n \in 1..Len(listFiles) |->
                               [filename |-> listFiles[n].filename,
                                status |-> listFiles[n].status,
                                additions |-> listFiles[n].additions,
                                deletions |-> listFiles[n].deletions,
                                patch |-> listFiles[n].patch]]
        rawComments == pr.reviewComments
        st == HunkLoop(rawComments, Len(rawComments))
        comments == [n \in 1..Len(rawComments) |-> CommentOut(rawComments[n], st.hunkToId)]
        metadata == [title |-> pr.title, body |-> pr.body, mergedAt |-> pr.merged_at,
                     number |-> pr.number, htmlUrl |-> pr.html_url]
    IN  IF DOMAIN st.diffHunks # {}
          THEN [linkedIssues |-> linkedIssues, metadata |-> metadata,
                filesAndPatches |-> filesAndPatches, comments |-> comments,
                diffHunks |-> st.diffHunks]
          ELSE [linkedIssues |-> linkedIssues, metadata |-> metadata,
                filesAndPatches |-> filesAndPatches, comments |-> comments]

PkgInit ==
    /\ Parked
    /\ pc = "call"
    /\ arg \in PkgArgs
    /\ result = << >>
    /\ settled = << >>

\* const pkg = prToLLMPackage(enriched)
PkgCall ==
    /\ pc = "call"
    /\ result' = prToLLMPackage(arg)
    /\ pc' = "returned"
    /\ UNCHANGED << arg, settled >>
    /\ UNCHANGED syncVars

PkgNext == PkgCall

PkgSpec == PkgInit /\ [][PkgNext]_vars

\* the diff contexts of the comments given, the table of the package (empty
\* when the package has none), and the comments of the package
ContextsGiven == { arg.reviewComments[n].diff_hunk : n \in 1..Len(arg.reviewComments) } \ { Null }
Table == IF "diffHunks" \in DOMAIN result THEN result.diffHunks ELSE EmptyMap
HasRef(n) == "hunkRef" \in DOMAIN result.comments[n]

\* C17: the table of the package has exactly one entry per distinct
\* non-empty diff context of the comments, so its values are pairwise
\* distinct, and comments with the same context have the same hunkRef.
C17_OneEntryPerContext ==
    pc = "returned" =>
        /\ { Table[id] : id \in DOMAIN Table } = ContextsGiven
        /\ Cardinality(DOMAIN Table) = Cardinality(ContextsGiven)
        /\ \A a, b \in DOMAIN Table : a # b => Table[a] # Table[b]
        /\ \A m, n \in 1..Len(arg.reviewComments) :
              ( /\ arg.reviewComments[m].diff_hunk # Null
                /\ arg.reviewComments[m].diff_hunk = arg.reviewComments[n].diff_hunk )
              => ( HasRef(m) /\ HasRef(n)
                   /\ result.comments[m].hunkRef = result.comments[n].hunkRef )

\* three comments on one context gave a table of one entry
C17_Witness ==
    /\ pc = "returned"
    /\ Len(arg.reviewComments) = 3
    /\ \A n \in 1..3 : arg.reviewComments[n].diff_hunk = HunkA
    /\ Cardinality(DOMAIN Table) = 1

\* the position of the first comment whose context is h
FirstWith(h) ==
    CHOOSE n \in 1..Len(arg.reviewComments) :
        /\ arg.reviewComments[n].diff_hunk = h
        /\ \A m \in 1..n - 1 : arg.reviewComments[m].diff_hunk # h

\* C18: the identifiers of the table are hunk_1 .. hunk_k without gaps, k
\* the number of distinct non-empty contexts, given in the order in which
\* the contexts first occur; the contexts A, B, A, C give A = hunk_1,
\* B = hunk_2, C = hunk_3.
C18_HunkNumbering ==
    pc = "returned" =>
        LET name(n) == << "h", "u", "n", "k", "_" >> \o NumberToString(n)
            kk == Cardinality(ContextsGiven)
        IN  /\ DOMAIN Table = { name(n) : n \in 1..kk }
            /\ \A m, n \in 1..kk :
                  m < n => FirstWith(Table[name(m)]) < FirstWith(Table[name(n)])
            /\ ( /\ Len(arg.reviewComments) = 4
                  /\ arg.reviewComments[1].diff_hunk = HunkA
                  /\ arg.reviewComments[2].diff_hunk = HunkB
                  /\ arg.reviewComments[3].diff_hunk = HunkA
                  /\ arg.reviewComments[4].diff_hunk = HunkC )
                => /\ Table[<< "h", "u", "n", "k", "_", "1" >>] = HunkA
                   /\ Table[<< "h", "u", "n", "k", "_", "2" >>] = HunkB
                   /\ Table[<< "h", "u", "n", "k", "_", "3" >>] = HunkC

\* the package for the contexts A, B, A, C
C18_Witness ==
    /\ pc = "returned"
    /\ Len(arg.reviewComments) = 4
    /\ arg.reviewComments[1].diff_hunk = HunkA /\ arg.reviewComments[2].diff_hunk = HunkB
    /\ arg.reviewComments[3].diff_hunk = HunkA /\ arg.reviewComments[4].diff_hunk = HunkC
    /\ Cardinality(DOMAIN Table) = 3

\* C19: the comments of the package are the review comments, as many and in
\* the same order; a comment has a hunkRef exactly when it has a non-empty
\* diff context, the table then holds that text under the hunkRef, and the
\* comment holds no raw context; the package has the diffHunks field
\* exactly when some comment has a hunkRef.
C19_CommentsRewritten ==
    pc = "returned" =>
        /\ Len(result.comments) = Len(arg.reviewComments)
        /\ \A n \in 1..Len(arg.reviewComments) :
              LET c == arg.reviewComments[n]
                  out == result.comments[n]
              IN  /\ out.path = c.path /\ out.body = c.body
                  /\ HasRef(n) <=> c.diff_hunk # Null
                  /\ HasRef(n) => /\ out.hunkRef \in DOMAIN Table
                                  /\ Table[out.hunkRef] = c.diff_hunk
                  /\ DOMAIN out \subseteq { "path", "body", "hunkRef" }
        /\ "diffHunks" \in DOMAIN result <=> \E n \in 1..Len(result.comments) : HasRef(n)

\* a comment without context between two comments with different contexts
C19_Witness ==
    /\ pc = "returned"
    /\ Len(result.comments) = 3
    /\ HasRef(1) /\ ~HasRef(2) /\ HasRef(3)
    /\ result.comments[1].hunkRef # result.comments[3].hunkRef

----------------------------------------------------------------------------
(* prToStem *)

AcmeWidgets == << "a", "c", "m", "e", "/", "w", "i", "d", "g", "e", "t", "s" >>

\* pr.repoFullName, pr.base?.repo?.full_name, pr.number and pr.merged_at of
\* the PRs handed to prToStem; Null is a missing value
RepoNames ==
    { Null, AcmeWidgets, << "o", "/", "r" >>, << "a", "/", "b", "/", "c" >>,
      << "a", "_", "b", "/", "c" >>, << "a", "/", "b", "_", "c" >>, << "/" >>,
      << "r" >> }
BaseRepoNames == { Null, << "b", "/", "r" >> }
Numbers == { 1, 7, 42, 100, 1234 }
MergedValues ==
    { Null, MergedAt1, MergedAt2, << "2", "0", "2", "4" >>, SubSeq(MergedAt2, 1, 10) }

StemArgs ==
    { [repoFullName |-> r, full_name |-> b, number |-> n, merged_at |-> m] :
        r \in RepoNames, b \in BaseRepoNames, n \in Numbers, m \in MergedValues }

StemInit ==
    /\ Parked
    /\ pc = "call"
    /\ arg \in StemArgs
    /\ result = << >>
    /\ settled = << >>

\* const stem = prToStem(pr)
StemCall ==
    /\ pc = "call"
    /\ result' = prToStem(arg)
    /\ pc' = "returned"
    /\ UNCHANGED << arg, settled >>
    /\ UNCHANGED syncVars

StemNext == StemCall

StemSpec == StemInit /\ [][StemNext]_vars

\* C20: the stem is the repository name with every "/" turned into "_",
\* then "_PR" and the number, then "_" and the first 10 characters of the
\* merge timestamp; a missing repository name or merge timestamp gives
\* "unknown" in its place; acme/widgets, 42, 2024-03-05T10:00:00Z gives
\* acme_widgets_PR42_2024-03-05.
C20_StemFormat ==
    pc = "returned" =>
        LET repo == IF arg.repoFullName # Null THEN arg.repoFullName
                    ELSE IF arg.full_name # Null THEN arg.full_name
                    ELSE << "u", "n", "k", "n", "o", "w", "n" >>
            date == IF arg.merged_at # Null THEN arg.merged_at
                    ELSE << "u", "n", "k", "n", "o", "w", "n" >>
            dlen == IF arg.merged_at # Null /\ Len(date) > 10 THEN 10 ELSE Len(date)
            num == NumberToString(arg.number)
            a == Len(repo)
            b == a + 3 + Len(num)
        IN  /\ Len(result) = b + 1 + dlen
            /\ \A p \in 1..a : result[p] = IF repo[p] = "/" THEN "_" ELSE repo[p]
            /\ result[a + 1] = "_" /\ result[a + 2] = "P" /\ result[a + 3] = "R"
            /\ \A p \in 1..Len(num) : result[a + 3 + p] = num[p]
            /\ result[b + 1] = "_"
            /\ \A p \in 1..dlen : result[b + 1 + p] = date[p]
            /\ ( arg.repoFullName = AcmeWidgets /\ arg.number = 42
                  /\ arg.merged_at = MergedAt1 )
                => result = << "a", "c", "m", "e", "_", "w", "i", "d", "g", "e", "t", "s",
                               "_", "P", "R", "4", "2", "_",
                               "2", "0", "2", "4", "-", "0", "3", "-", "0", "5" >>

\* the stem of acme/widgets #42 merged at 2024-03-05T10:00:00Z
C20_Witness ==
    /\ pc = "returned"
    /\ arg.repoFullName = AcmeWidgets /\ arg.number = 42 /\ arg.merged_at = MergedAt1
    /\ Len(result) = 28 /\ result[5] = "_"

\* the stem of a PR that has neither a repository name nor a merge timestamp
StemOfNothing ==
    /\ pc = "returned"
    /\ arg.repoFullName = Null /\ arg.full_name = Null /\ arg.merged_at = Null
    /\ arg.number = 7
    /\ result = << "u", "n", "k", "n", "o", "w", "n", "_", "P", "R", "7", "_",
                   "u", "n", "k", "n", "o", "w", "n" >>

\* the repository name prToStem works from
RepoNameOf(pr) ==
    IF pr.repoFullName # Null THEN pr.repoFullName
    ELSE IF pr.full_name # Null THEN pr.full_name
    ELSE unknown

\* C21 as stated: a PR that differs from the PR given in the repository
\* full name or in the number has a stem other than the stem returned.
C21_StemsDiffer ==
    pc = "returned" =>
        \A other \in StemArgs :
            (RepoNameOf(other) # RepoNameOf(arg) \/ other.number # arg.number)
                => prToStem(other) # result

----------------------------------------------------------------------------
(* notion/blocks.js: richText, block, markdownToNotionBlocks *)

RICH_TEXT_LIMIT == 2000

\* bug variant of richText: the content is not cut
richTextWhole(content) ==
    IF Len(content) = 0 THEN << >>
    ELSE << [type |-> "text", content |-> content, link |-> Null] >>

RECURSIVE richText(_)
\* the while loop of richText: one text object per slice of RICH_TEXT_LIMIT
richText(content) ==
    IF Len(content) = 0 THEN << >>
    ELSE << [type |-> "text", content |-> SliceTo(content, RICH_TEXT_LIMIT), link |-> Null] >>
         \o richText(SubSeq(content, RICH_TEXT_LIMIT + 1, Len(content)))

\* { object: 'block', type, [type]: { rich_text: rt } }
block(type, content) == [object |-> "block", type |-> type, rich_text |-> richText(content)]

\* what \s matches and trim() removes, inside a line
IsSpace(c) == c \in { " ", "\t", "\r" }

\* the positions of the line feeds of md, and the k-th of them (0 before the
\* text, Len(md) + 1 after the last)
LineFeeds(md) == { p \in 1..Len(md) : md[p] = "\n" }
LineFeed(md, n) ==
    IF n = 0 THEN 0
    ELSE IF n > Cardinality(LineFeeds(md)) THEN Len(md) + 1
    ELSE CHOOSE p \in LineFeeds(md) : Cardinality({ q \in LineFeeds(md) : q < p }) = n - 1

\* markdown.split(/\r?\n/)
SplitLines(md) ==
    [n \in 1..Cardinality(LineFeeds(md)) + 1 |->
        LET from == LineFeed(md, n - 1) + 1
            nl == LineFeed(md, n)
            to == IF nl <= Len(md) /\ nl - 1 >= from /\ md[nl - 1] = "\r"
                    THEN nl - 2 ELSE nl - 1
        IN  SubSeq(md, from, to)]

\* line.trim()
Trim(t) ==
    IF \A p \in 1..Len(t) : IsSpace(t[p]) THEN << >>
    ELSE LET a == CHOOSE p \in 1..Len(t) :
                      ~IsSpace(t[p]) /\ \A q \in 1..p - 1 : IsSpace(t[q])
             b == CHOOSE p \in 1..Len(t) :
                      ~IsSpace(t[p]) /\ \A q \in p + 1..Len(t) : IsSpace(t[q])
         IN  SubSeq(t, a, b)

\* \s* from position p on: the first position at or after p that holds no
\* space, Len(t) + 1 when there is none
SkipSpaces(t, p) ==
    IF \A q \in p..Len(t) : IsSpace(t[q]) THEN Len(t) + 1
    ELSE CHOOSE q \in p..Len(t) : ~IsSpace(t[q]) /\ \A x \in p..q - 1 : IsSpace(t[x])

\* \*+ at the start of t: the number of asterisks t begins with
LeadingStars(t) ==
    IF Len(t) = 0 \/ t[1] # "*" THEN 0
    ELSE CHOOSE a \in 1..Len(t) :
             /\ a = Len(t) \/ t[a + 1] # "*"
             /\ \A p \in 1..a : t[p] = "*"

\* . matches no line terminator
Dots(t) == \A p \in 1..Len(t) : t[p] # "\r"

NoMatch == [matched |-> FALSE, group |-> Null]
Match(g) == [matched |-> TRUE, group |-> g]

\* trimmed.match(/^(?:-\s*)?\*\*(.+?)\*\*\s*$/) on a trimmed, non-empty line:
\* the line ends with no space, so the closing ** are its last two characters
headingMatch(t) ==
    LET from == IF t[1] = "-" THEN SkipSpaces(t, 2) ELSE 1 IN
    IF /\ from + 4 <= Len(t)
       /\ t[from] = "*" /\ t[from + 1] = "*"
       /\ t[Len(t) - 1] = "*" /\ t[Len(t)] = "*"
       /\ Dots(SubSeq(t, from + 2, Len(t) - 2))
      THEN Match(SubSeq(t, from + 2, Len(t) - 2))
      ELSE NoMatch

\* trimmed.match(/^\*+\s*(.+)$/): \*+ takes every leading asterisk when a
\* character is left for (.+), else it gives one asterisk back to (.+)
bulletMatch(t) ==
    LET a == LeadingStars(t)
        from == SkipSpaces(t, a + 1)
    IN  IF a = 0 THEN NoMatch
        ELSE IF from <= Len(t)
          THEN IF Dots(SubSeq(t, from, Len(t))) THEN Match(SubSeq(t, from, Len(t)))
               ELSE NoMatch
        ELSE IF a >= 2 THEN Match(<< "*" >>)
        ELSE NoMatch

\* the body of the for loop for one trimmed, non-empty line
LineBlock(t) ==
    IF headingMatch(t).matched THEN block("heading_2", headingMatch(t).group)
    ELSE IF bulletMatch(t).matched THEN block("bulleted_list_item", bulletMatch(t).group)
    ELSE block("paragraph", t)

markdownToNotionBlocks(markdown) ==
    LET lines == SplitLines(markdown)
        trimmed == [n \in 1..Len(lines) |-> Trim(lines[n])]
        kept == SelectSeq(trimmed, LAMBDA t : t # << >>)
    IN  [n \in 1..Len(kept) |-> LineBlock(kept[n])]

\* "**Problem**\n* bullet one\nplain text"
ExampleSummary ==
    << "*", "*", "P", "r", "o", "b", "l", "e", "m", "*", "*", "\n",
       "*", " ", "b", "u", "l", "l", "e", "t", " ", "o", "n", "e", "\n",
       "p", "l", "a", "i", "n", " ", "t", "e", "x", "t" >>

\* the characters of the summaries of the model, and the summaries
MdChars == { "*", "-", " ", "a", "\n" }
Summaries == SeqsUpTo(MdChars, MaxMarkdown) \cup { ExampleSummary }

MdInit ==
    /\ Parked
    /\ pc = "call"
    /\ arg \in Summaries
    /\ result = << >>
    /\ settled = << >>

\* const summaryBlocks = markdownToNotionBlocks(summaryMarkdown)
MdCall ==
    /\ pc = "call"
    /\ result' = markdownToNotionBlocks(arg)
    /\ pc' = "returned"
    /\ UNCHANGED << arg, settled >>
    /\ UNCHANGED syncVars

MdNext == MdCall

MdSpec == MdInit /\ [][MdNext]_vars

RECURSIVE Joined(_)
\* the contents of the text objects of a block, one after the other
Joined(rt) == IF rt = << >> THEN << >> ELSE rt[1].content \o Joined(Tail(rt))

\* the non-blank lines of a summary, trimmed
NonBlankLines(md) ==
    SelectSeq([n \in 1..Len(SplitLines(md)) |-> Trim(SplitLines(md)[n])],
              LAMBDA t : t # << >>)

\* where a line starts once a leading "-" and the spaces after it are set aside
AfterDash(t) == IF t[1] = "-" THEN SkipSpaces(t, 2) ELSE 1

\* a line wholly wrapped in double asterisks, a bullet prefix set aside
Wrapped(t) ==
    /\ AfterDash(t) + 4 <= Len(t)
    /\ SubSeq(t, AfterDash(t), AfterDash(t) + 1) = << "*", "*" >>
    /\ SubSeq(t, Len(t) - 1, Len(t)) = << "*", "*" >>

\* C22 as stated: one block per non-blank line, in line order; a wrapped
\* line gives a heading with the inner text, any other line that begins
\* with an asterisk gives a bulleted list item with the text after the
\* asterisks, any other line gives a paragraph.
C22_Original ==
    pc = "returned" =>
        LET kept == NonBlankLines(arg) IN
        /\ Len(result) = Len(kept)
        /\ \A n \in 1..Len(kept) :
              LET t == kept[n] IN
              IF Wrapped(t)
                THEN /\ result[n].type = "heading_2"
                     /\ Joined(result[n].rich_text) = SubSeq(t, AfterDash(t) + 2, Len(t) - 2)
              ELSE IF t[1] = "*"
                THEN /\ result[n].type = "bulleted_list_item"
                     /\ Joined(result[n].rich_text)
                            = SubSeq(t, SkipSpaces(t, LeadingStars(t) + 1), Len(t))
              ELSE /\ result[n].type = "paragraph"
                   /\ Joined(result[n].rich_text) = t

----------------------------------------------------------------------------
(* notion/sync.js: the blocks appendSummaryToPage sends for one PR *)

RECURSIVE StemTitle(_)
\* stem.replace(/_/g, ' / ').replace(/-/g, ' ')
StemTitle(stem) ==
    IF stem = << >> THEN << >>
    ELSE (CASE Head(stem) = "_" -> << " ", "/", " " >>
            [] Head(stem) = "-" -> << " " >>
            [] OTHER -> << Head(stem) >>) \o StemTitle(Tail(stem))

\* const blocks = [ heading_2 with the title, ...summaryBlocks, divider ]
SummaryBlocks(stem, summaryMarkdown) ==
    << [object |-> "block", type |-> "heading_2",
        rich_text |-> << [type |-> "text", content |-> StemTitle(stem), link |-> Null] >>] >>
    \o markdownToNotionBlocks(summaryMarkdown)
    \o << [object |-> "block", type |-> "divider"] >>

\* a text of n characters that differ from place to place
TextOf(n) == [p \in 1..n |-> Digit(p % 10)]

\* the lengths of the block texts of the model: the short ones, and those
\* around the multiples of RICH_TEXT_LIMIT
TextLengths ==
    { n \in 1..MaxText :
        n < 30 \/ (n % RICH_TEXT_LIMIT) \in { 0, 1, RICH_TEXT_LIMIT - 1 } }

\* a summary line that gives a block of the kind with the text
LineOf(kind, text) ==
    CASE kind = "heading_2" -> << "*", "*" >> \o text \o << "*", "*" >>
      [] kind = "bulleted_list_item" -> << "*", " " >> \o text
      [] kind = "paragraph" -> text

\* stem and summary handed to appendSummaryToPage; texts are the texts of
\* the blocks the summary is made of
AppendArgs ==
    { [stem |-> st,
       summary |-> LineOf(kind, TextOf(n)) \o << "\n", "\n", "e", "n", "d" >>,
       texts |-> << TextOf(n), << "e", "n", "d" >> >>] :
        st \in StemKeys, kind \in { "heading_2", "bulleted_list_item", "paragraph" },
        n \in TextLengths }

AppendInit ==
    /\ Parked
    /\ pc = "call"
    /\ arg \in AppendArgs
    /\ result = << >>
    /\ settled = << >>

\* appendSummaryToPage up to the call of appendBlocksToPage
AppendCall ==
    /\ pc = "call"
    /\ result' = SummaryBlocks(arg.stem, arg.summary)
    /\ pc' = "returned"
    /\ UNCHANGED << arg, settled >>
    /\ UNCHANGED syncVars

AppendNext == AppendCall

AppendSpec == AppendInit /\ [][AppendNext]_vars

\* C23: in the blocks sent for one PR (heading with the title, the blocks of
\* the summary, divider) no text object holds more than 2000 characters, and
\* the text objects of each block of the summary, put together in order,
\* are the text of that block.
C23_ChunksOfBlocks ==
    pc = "returned" =>
        /\ Len(result) = Len(arg.texts) + 2
        /\ result[1].type = "heading_2" /\ result[Len(result)].type = "divider"
        /\ \A n \in 1..Len(result) :
              "rich_text" \in DOMAIN result[n] =>
                  \A c \in 1..Len(result[n].rich_text) :
                      Len(result[n].rich_text[c].content) <= 2000
        /\ \A n \in 1..Len(arg.texts) :
              Joined(result[n + 1].rich_text) = arg.texts[n]

\* a bulleted item of 4001 characters was cut into three text objects
C23_Witness ==
    /\ pc = "returned"
    /\ Len(arg.texts[1]) = 4001
    /\ result[2].type = "bulleted_list_item"
    /\ Len(result[2].rich_text) = 3

----------------------------------------------------------------------------
(* runSync from the return of the collector on, the command line known *)

\* what fetchMergedPRsForUser may have returned
CollectorResults ==
    { [n \in 1..Len(hits) |-> Collected(hits[n])] : hits \in InjSeqs(MergedPRs, MaxHits) }

\* arg holds the --limit argument, the TTY flag, PR_LIMIT or the answer to
\* the prompt, and the list the collector returned
LimitInit ==
    /\ cacheFile \in { Unreadable } \cup { saveCache(c) : c \in CacheObjects }
    /\ fileAtStart = cacheFile
    /\ force \in BOOLEAN
    /\ cache = InitialCache(force, cacheFile)
    /\ run = 1
    /\ pc = "limit"
    /\ exitCode = "none"
    /\ abortCause = "none"
    /\ token = "valid"
    /\ page = 1
    /\ items = << >>
    /\ k = 0
    /\ collected = FALSE
    /\ i = 1
    /\ calls = << >>
    /\ outcome = << >>
    /\ notionPage = << >>
    /\ writes = 0
    /\ appendCount = [s \in StemKeys |-> 0]
    /\ prev = NoPrev
    /\ clean = TRUE
    /\ remote = << >>
    /\ pagesAsked = << >>
    /\ \E list \in CollectorResults :
          /\ prs = list
          /\ arg \in { [limitArg |-> a, isTTY |-> t, n |-> n, collected |-> list] :
                          a \in LimitArgs, t \in BOOLEAN, n \in LimitArgs }
    /\ result = << >>
    /\ settled = << >>

LimitChoose == ChooseLimitWith(arg.limitArg, arg.isTTY, arg.n)

LimitNext ==
    \/ LimitChoose
    \/ LoopTop
    \/ RemoteReply
    \/ AfterEnrich
    \/ AfterSummarize
    \/ AfterAppend
    \/ SaveBegin
    \/ SaveEnd

LimitSpec == LimitInit /\ [][LimitNext]_vars

\* C24: with --limit N, N a positive integer, the PRs of the run are the
\* first min(N, total) PRs the collector returned, in its order; every call
\* issued is for one of them, and a run that ends has handled each of them.
C24_LimitPrefix ==
    (pc # "limit" /\ arg.limitArg.t = "int" /\ arg.limitArg.v > 0) =>
        LET total == Len(arg.collected)
            m == IF arg.limitArg.v < total THEN arg.limitArg.v ELSE total
        IN  /\ prs = [n \in 1..m |-> arg.collected[n]]
            /\ \A c \in DOMAIN calls :
                  /\ calls[c].idx \in 1..m
                  /\ calls[c].stem = prToStem(arg.collected[calls[c].idx])
            /\ Len(outcome) <= m
            /\ RunEnded => Len(outcome) = m

\* --limit 1 with two PRs collected and PR_LIMIT = 2: the run ended after
\* the first PR was appended
C24_Witness ==
    /\ RunEnded
    /\ arg.limitArg = Int_(1) /\ arg.n = Int_(2) /\ ~arg.isTTY
    /\ Len(arg.collected) = 2
    /\ outcome = << "appended" >>

----------------------------------------------------------------------------
(* saveCache interrupted *)

\* C25: when the process is killed, the cache file holds either the complete
\* content it had at the start of the run or the complete image of the
\* in-memory cache, never a partial or empty file that loadCache reads as {}.
C25_AtomicSave ==
    (pc = "exit" /\ exitCode = "killed") =>
        \/ cacheFile = fileAtStart
        \/ cacheFile.ok /\ cacheFile.data = cache

----------------------------------------------------------------------------
(* the order of the steps for one PR *)

\* the call before call n of the run, when it is for the same PR
Before(n) == IF n > 1 /\ calls[n - 1].idx = calls[n].idx THEN { calls[n - 1] } ELSE { }

\* the stems this run has recorded in the cache image
Recorded == DOMAIN cache \ DOMAIN InitialCache(force, fileAtStart)

\* C26: for a PR that is not a cache hit the steps are enrichPR, then
\* (prToLLMPackage and) summarizePR, then appendSummaryToPage, then the
\* record in the cache image: a step is issued only once the step before it
\* has returned without throwing, a stem is recorded only when its append
\* call has returned successfully, and it is recorded before any call for
\* the next PR is issued.
C26_StepsInOrder ==
    (pc \notin { "idle", "login", "runSync" }) =>
        /\ \A n \in DOMAIN calls :
              /\ calls[n].op = "enrichPR" => Before(n) = { }
              /\ calls[n].op = "summarizePR" =>
                    \E b \in Before(n) : b.op = "enrichPR" /\ b.st = "ok"
              /\ calls[n].op = "appendSummaryToPage" =>
                    \E b \in Before(n) : b.op = "summarizePR" /\ b.st = "ok"
              /\ n < Len(calls) => calls[n].st # "pending"
              /\ (calls[n].op = "appendSummaryToPage" /\ calls[n].st = "ok"
                      /\ (n < Len(calls) \/ calls[n].idx < i)) =>
                    calls[n].stem \in DOMAIN cache
        /\ \A s \in Recorded :
              \E n \in DOMAIN calls :
                  /\ calls[n].op = "appendSummaryToPage"
                  /\ calls[n].stem = s
                  /\ calls[n].st = "ok"

\* the first PR was appended and recorded; the summarizePR call of the
\* second PR threw and the run ended with no append issued for it
C26_Witness ==
    /\ Len(calls) = 5
    /\ calls[3].op = "appendSummaryToPage" /\ calls[3].st = "ok"
    /\ calls[3].stem \in Recorded
    /\ calls[5].op = "summarizePR" /\ calls[5].st = "err"
    /\ RunEnded

----------------------------------------------------------------------------
(* what a run without --force leaves of the file it loaded *)

\* C27: in a run without --force that has ended by itself, the file written
\* holds every entry of the cache loaded at the start of the run, with the
\* value it had, whether or not its PR was selected or collected in this
\* run: the run only adds entries.
C27_OnlyAddsEntries ==
    (RunEnded /\ ~force) =>
        /\ cacheFile.ok
        /\ \A s \in DOMAIN loadCache(fileAtStart) :
              /\ s \in DOMAIN cacheFile.data
              /\ cacheFile.data[s] = loadCache(fileAtStart)[s]

\* the file loaded held a page id for a PR that is not among the selected
\* ones, and the run appended another PR and wrote both entries
C27_Witness ==
    /\ RunEnded /\ ~force
    /\ \E s \in DOMAIN loadCache(fileAtStart) :
          /\ loadCache(fileAtStart)[s] = "page-id"
          /\ \A n \in DOMAIN prs : prToStem(prs[n]) # s
    /\ \E s \in DOMAIN cacheFile.data : s \notin DOMAIN loadCache(fileAtStart)

----------------------------------------------------------------------------
(* a failed collection and the cache file *)

\* the causes of a failed collection: getAuthenticated, a search page
\* request or the lookup of a full record threw
CollectionFailures == { "auth", "search", "resolve" }

\* C28: when the collection fails the run exits with status 1 and without
\* writing the cache file: the file has the content it had at the start of
\* the run, with --force too.
C28_FailedCollectionKeepsFile ==
    (pc = "exit" /\ abortCause \in CollectionFailures) =>
        /\ exitCode = "1"
        /\ cacheFile = fileAtStart
        /\ calls = << >>

\* a run with --force over a file with an entry: the lookup of a full
\* record threw, and the file still holds the entry
C28_Witness ==
    /\ pc = "exit" /\ abortCause = "resolve"
    /\ force
    /\ cacheFile.ok /\ DOMAIN cacheFile.data # {}
    /\ cacheFile = fileAtStart

====
